---- MODULE Spec2Model ----
(***************************************************************************)
(* commitwise: the staged-change verification engine of                    *)
(* src/src/checks/frontendCheck.ts.                                         *)
(*                                                                         *)
(* The specifications share the variables:                                 *)
(*   SpecSelect  pickBestCheck as a pure function of the repository root   *)
(*               (manifest, tsconfig.json, lockfiles);                     *)
(*   Spec        one call of runBestFrontendCheck, one action per          *)
(*               statement that touches git, the filesystem or a           *)
(*               subprocess, each with every outcome the environment can   *)
(*               produce;                                                  *)
(*   SpecLockfiles  pickBestCheck over every combination of lockfiles;     *)
(*   SpecTwo     two processes calling createStagedWorktree and cleanup    *)
(*               on one repository, their steps interleaved;               *)
(*   SpecCli     the commands auto, scan and suggest of src/src/cli.       *)
(***************************************************************************)
EXTENDS Integers, Sequences, FiniteSets, TLC

VARIABLES
    manifest,         \* package.json at repoRoot: [kind, scripts, deps]
    tsconfig,         \* tsconfig.json exists at repoRoot
    lockfiles,        \* lockfile names present at repoRoot
    rootNodeModules,  \* repoRoot/node_modules: "absent" | "present" | "modified"
    nmTracked,        \* node_modules is committed, so a checkout of HEAD has it
    branch,           \* the user's current branch pointer [name, commit]
    head,             \* tree of the HEAD commit
    index,            \* the staged index
    work,             \* tracked files of the user's working tree
    worktrees,        \* registered linked worktrees of the repository at repoRoot
    otherWorktrees,   \* registered linked worktrees of another repository
    stagedManifest,   \* package.json as staged in the index of the repository at repoRoot
    processCwd,       \* process.cwd(): inside "repoRoot" or inside "otherRepo"
    tmp,              \* the call's temporary directory and what is in it
    pc,               \* position inside the call
    best,             \* const best = pickBestCheck(repoRoot)
    patch,            \* const patch = git diff --cached
    applyErr,         \* e caught from the failed git apply
    pending,          \* value of the return statement, before finally runs
    result,           \* what the caller receives
    outcome,          \* "none" | "returned" | "raised"
    error,            \* the Error reaching the caller
    log,              \* history: every step attempted, in order
    checkSaw,         \* history: the tracked content the check ran against
    calls,            \* SpecTwo: per process, its position and its base directory
    osTmp,            \* SpecTwo: paths that exist under os.tmpdir()
    registry,         \* SpecTwo: worktree paths registered in the repository
    command,          \* SpecCli: "auto" | "scan" | "suggest"
    scanEnabled,      \* SpecCli: config.scanEnabled
    staged,           \* SpecCli: what `git diff --cached` prints
    diff,             \* SpecCli: const diff = getStagedDiff()
    cliPc,            \* SpecCli: position inside the command
    exitCode,         \* SpecCli: status the process exited with, -1 while it runs
    systemPrompt,     \* SpecCli: what runFrontendChecks returned
    msg,              \* SpecCli: the commit message on display
    rounds,           \* SpecCli: iterations of the approval loop so far
    events            \* SpecCli history: checks, model requests, prompts, commits

callVars == <<manifest, tsconfig, lockfiles, rootNodeModules, nmTracked, branch,
              head, index, work, worktrees, otherWorktrees, stagedManifest, processCwd,
              tmp, pc, best, patch, applyErr,
              pending, result, outcome, error, log, checkSaw>>

twoVars == <<calls, osTmp, registry>>

cliVars == <<command, scanEnabled, staged, diff, cliPc, exitCode, systemPrompt,
             msg, rounds, events>>

vars == <<callVars, twoVars, cliVars>>

repoVars == <<manifest, tsconfig, lockfiles, nmTracked, branch, head, index,
              stagedManifest, processCwd>>

-----------------------------------------------------------------------------
(* Bounds *)

\* longest scripts object, in declarations, that SpecSelect enumerates
MaxScripts == 2

-----------------------------------------------------------------------------
(* Values *)

Undefined == "<undefined>"

CheckKinds == {"tests", "typecheck", "lint", "build"}

\* script names the catalog looks for, and one it ignores
TestScriptNames == {"test", "test:run", "test:ci", "test:unit"}
ScriptNames == TestScriptNames \cup {"typecheck", "lint", "build", "start"}

\* a script's command: a non-empty string or the empty string
ScriptValues == {"cmd", ""}

ScriptDecls == ScriptNames \X ScriptValues

\* dependency names as <<prefix, rest>>, so that startsWith is a test of the prefix
Deps == { <<"vue">>, <<"@vue/", "compiler-sfc">>, <<"nuxt", "3">>, <<"react">> }

DepSets == { {} } \cup { {d} : d \in Deps }

LockfileNames == {"pnpm-lock.yaml", "yarn.lock", "bun.lockb", "bun.lock", "package-lock.json"}

SeqsUpTo(S, n) == UNION { [1..k -> S] : k \in 0..n }

NoManifest == [kind |-> "missing", scripts |-> <<>>, deps |-> {}]
BadManifest == [kind |-> "unparsable", scripts |-> <<>>, deps |-> {}]
NullManifest == [kind |-> "null", scripts |-> <<>>, deps |-> {}]

ObjectManifests(n, depSets) ==
    { [kind |-> "object", scripts |-> s, deps |-> d] : s \in SeqsUpTo(ScriptDecls, n), d \in depSets }

-----------------------------------------------------------------------------
(* Step 0: utilities *)

\* exists(p) for a lockfile path under repoRoot
exists(files, name) == name \in files

\* readJson(pkgPath): null when the read or JSON.parse throws; JSON null parses to null
readJson(m) == IF m.kind = "object" THEN m ELSE NullManifest

\* !pkg
Falsy(pkg) == pkg.kind # "object"

\* scripts[name] of the parsed object: the last declaration of a key wins, a key
\* never declared reads undefined
ScriptOf(scripts, name) ==
    LET at == { i \in 1..Len(scripts) : scripts[i][1] = name }
    IN  IF at = {} THEN Undefined
        ELSE scripts[CHOOSE i \in at : \A j \in at : j <= i][2]

\* JavaScript truthiness of a script entry
Truthy(v) == v # Undefined /\ v # ""

-----------------------------------------------------------------------------
(* Step 0C: run(program, args, cwd) *)

\* what spawnSync can hand back: r.status is null unless the process exited,
\* r.error is set when it could not be launched or was killed by spawnSync itself
ProcResults ==
    { [exited |-> TRUE, status |-> 0, stdout |-> so, stderr |-> <<>>, failed |-> FALSE, message |-> <<>>] :
        so \in {<<>>, <<"out", "\n">>} }
    \cup
    { [exited |-> TRUE, status |-> 1, stdout |-> so, stderr |-> <<"err", "\n">>, failed |-> FALSE, message |-> <<>>] :
        so \in {<<>>, <<"out", "\n">>} }
    \cup
    { [exited |-> FALSE, status |-> 0, stdout |-> <<"out", "\n">>, stderr |-> <<>>, failed |-> FALSE, message |-> <<>>],
      [exited |-> FALSE, status |-> 0, stdout |-> <<>>, stderr |-> <<>>, failed |-> TRUE, message |-> <<"spawn ENOENT">>],
      [exited |-> FALSE, status |-> 0, stdout |-> <<"out", "\n">>, stderr |-> <<>>, failed |-> TRUE, message |-> <<"spawnSync ENOBUFS">>] }

IsSpace(t) == t \in {" ", "\n"}

RECURSIVE TrimStart(_)
TrimStart(s) == IF s # <<>> /\ IsSpace(Head(s)) THEN TrimStart(Tail(s)) ELSE s

RECURSIVE TrimEnd(_)
TrimEnd(s) ==
    IF s # <<>> /\ IsSpace(s[Len(s)]) THEN TrimEnd(SubSeq(s, 1, Len(s) - 1)) ELSE s

\* String.prototype.trim
Trim(s) == TrimEnd(TrimStart(s))

\* r.status ?? 1
StatusNullAsZero(r) == IF r.exited THEN r.status ELSE 0
StatusOrOne(r) == IF r.exited THEN r.status ELSE 1

\* the { ok, output } that run returns for r
run(r) ==
    [ok |-> StatusOrOne(r) = 0,
     output |-> Trim(r.stdout \o r.stderr \o (IF r.failed THEN <<"\n">> \o r.message ELSE <<>>))]

-----------------------------------------------------------------------------
(* Step 1: detectPm *)

detectPmYarnFirst(files) ==
    IF exists(files, "yarn.lock") THEN "yarn"
    ELSE IF exists(files, "pnpm-lock.yaml") THEN "pnpm"
    ELSE IF exists(files, "bun.lockb") \/ exists(files, "bun.lock") THEN "bun"
    ELSE "npm"

detectPm(files) ==
    IF exists(files, "pnpm-lock.yaml") THEN "pnpm"
    ELSE IF exists(files, "yarn.lock") THEN "yarn"
    ELSE IF exists(files, "bun.lockb") \/ exists(files, "bun.lock") THEN "bun"
    ELSE "npm"

-----------------------------------------------------------------------------
(* Step 2: detectChecksFromPackageJson *)

CheckCommand(kind, name, program, args) ==
    [kind |-> kind, name |-> name, program |-> program, args |-> args]

\* const runScript = (kind, scriptName) => ...
runScript(pm, kind, scriptName) ==
    CheckCommand(kind, pm \o " run " \o scriptName, pm, <<"run", scriptName>>)

\* const testScript = scripts.test ? "test" : scripts["test:run"] ? ... : null
testScriptSynonymFirst(scripts) ==
    IF Truthy(ScriptOf(scripts, "test:run")) THEN "test:run"
    ELSE IF Truthy(ScriptOf(scripts, "test")) THEN "test"
    ELSE IF Truthy(ScriptOf(scripts, "test:ci")) THEN "test:ci"
    ELSE IF Truthy(ScriptOf(scripts, "test:unit")) THEN "test:unit"
    ELSE Undefined

testScript(scripts) ==
    IF Truthy(ScriptOf(scripts, "test")) THEN "test"
    ELSE IF Truthy(ScriptOf(scripts, "test:run")) THEN "test:run"
    ELSE IF Truthy(ScriptOf(scripts, "test:ci")) THEN "test:ci"
    ELSE IF Truthy(ScriptOf(scripts, "test:unit")) THEN "test:unit"
    ELSE Undefined

detectChecksFromPackageJson(m, files) ==
    IF m.kind = "missing" THEN <<>>
    ELSE IF Falsy(readJson(m)) THEN <<>>
    ELSE
        LET scripts == readJson(m).scripts
            pm == detectPm(files)
            ts == testScript(scripts)
            tests ==
                IF ts = Undefined THEN <<>>
                ELSE IF ts = "test" THEN << CheckCommand("tests", pm \o " test", pm, <<"test">>) >>
                ELSE << CheckCommand("tests", pm \o " run " \o ts, pm, <<"run", ts>>) >>
            typecheck ==
                IF Truthy(ScriptOf(scripts, "typecheck")) THEN << runScript(pm, "typecheck", "typecheck") >> ELSE <<>>
            lint ==
                IF Truthy(ScriptOf(scripts, "lint")) THEN << runScript(pm, "lint", "lint") >> ELSE <<>>
            build ==
                IF Truthy(ScriptOf(scripts, "build")) THEN << runScript(pm, "build", "build") >> ELSE <<>>
        IN  tests \o typecheck \o lint \o build

-----------------------------------------------------------------------------
(* Step 3: detectTypecheckFallback *)

\* dep === "vue" || dep.startsWith("@vue/") || dep.startsWith("nuxt")
IsVueOnly(dep) == dep = <<"vue">>
IsVueDep(dep) == dep = <<"vue">> \/ dep[1] = "@vue/" \/ dep[1] = "nuxt"

fallbackWheneverTsconfig(m, hasTsconfig, alreadyHasTypecheckScript) ==
    IF ~hasTsconfig THEN <<>>
    ELSE << CheckCommand("typecheck", "npx tsc --noEmit", "npx", <<"-y", "tsc", "--noEmit">>) >>

detectTypecheckFallback(m, hasTsconfig, alreadyHasTypecheckScript) ==
    IF alreadyHasTypecheckScript THEN <<>>
    ELSE IF ~hasTsconfig THEN <<>>
    ELSE
        LET pkg == readJson(m)
            isVue == m.kind # "missing" /\ ~Falsy(pkg) /\ \E dep \in pkg.deps : IsVueDep(dep)
        IN  IF isVue
            THEN << CheckCommand("typecheck", "npx vue-tsc --noEmit", "npx", <<"-y", "vue-tsc", "--noEmit">>) >>
            ELSE << CheckCommand("typecheck", "npx tsc --noEmit", "npx", <<"-y", "tsc", "--noEmit">>) >>

-----------------------------------------------------------------------------
(* Step 4: pickBestCheck *)

\* const priority: CheckKind[] = [...]
priorityLintFirst == <<"lint", "tests", "typecheck", "build">>
priority == <<"tests", "typecheck", "lint", "build">>

\* priority.indexOf(kind), counted from 1
indexOf(kind) == CHOOSE i \in 1..Len(priority) : priority[i] = kind

\* the comparator (a, b) => priority.indexOf(a.kind) - priority.indexOf(b.kind)
compare(a, b) == indexOf(a.kind) - indexOf(b.kind)

\* Array.prototype.sort is stable: c goes after every element that does not
\* compare greater than it
RECURSIVE insert(_, _)
insert(sorted, c) ==
    IF sorted = <<>> THEN <<c>>
    ELSE IF compare(Head(sorted), c) <= 0 THEN <<Head(sorted)>> \o insert(Tail(sorted), c)
    ELSE <<c>> \o sorted

RECURSIVE sort(_)
sort(checks) ==
    IF checks = <<>> THEN <<>>
    ELSE insert(sort(SubSeq(checks, 1, Len(checks) - 1)), checks[Len(checks)])

\* const allChecks = [...scriptChecks, ...fallbackChecks]
allChecks(m, hasTsconfig, files) ==
    LET scriptChecks == detectChecksFromPackageJson(m, files)
        hasTypecheckScript == \E i \in 1..Len(scriptChecks) : scriptChecks[i].kind = "typecheck"
    IN  scriptChecks \o detectTypecheckFallback(m, hasTsconfig, hasTypecheckScript)

\* null
NoCheck == CheckCommand("none", "", "", <<>>)

pickBestCheck(m, hasTsconfig, files) ==
    LET all == allChecks(m, hasTsconfig, files)
    IN  IF Len(all) = 0 THEN NoCheck ELSE sort(all)[1]

-----------------------------------------------------------------------------
(* Git and the filesystem, as far as the call uses them *)

Files == {"a.ts"}
Contents == {"v1", "v2"}
Trees == [Files -> Contents]

\* a diff is the set of files that differ, each with its old and its new content
Diff(from, to) ==
    { [file |-> f, old |-> from[f], new |-> to[f]] : f \in { g \in Files : from[g] # to[g] } }

\* git diff --cached: HEAD against the index
GitDiffHead(h, i, w) == Diff(h, w)
GitDiffCached(h, i, w) == Diff(h, i)

\* patch.trim() is the empty string: git prints nothing when nothing differs
PatchBlank(p) == p = {}

\* git apply refuses a hunk whose old side is not what the tree holds
Applicable(tree, p) == \A h \in p : tree[h.file] = h.old

Apply(tree, p) ==
    [f \in Files |-> IF \E h \in p : h.file = f
                     THEN (CHOOSE h \in p : h.file = f).new
                     ELSE tree[f]]

\* path.join(base, "wt")
wtDir == "commitwise-XXXXXX/wt"

\* the temporary directory before mkdtemp and after a recursive delete
\* the repository a git command without a cwd option works on is the one that
\* contains process.cwd(); the other repository has one commit and nothing staged
OtherHead == [f \in Files |-> "v2"]
OtherIndex == OtherHead
gitCwd == processCwd
GitHead == IF gitCwd = "repoRoot" THEN head ELSE OtherHead
GitIndex == IF gitCwd = "repoRoot" THEN index ELSE OtherIndex

NoTmp == [exists |-> FALSE, wtDir |-> FALSE, wt |-> [f \in Files |-> "v1"],
          nm |-> "none", patchFile |-> FALSE]

\* fs.existsSync(wtNodeModules)
wtNodeModulesExists == tmp.nm # "none"

\* fs.existsSync(path.join(repoRoot, "node_modules"))
rootAlwaysHasNodeModules == TRUE
hasNodeModules == rootNodeModules # "absent"

\* r of a step that is no run(): nothing was spawned
NoProc == [exited |-> FALSE, status |-> 0, stdout |-> <<>>, stderr |-> <<>>,
           failed |-> FALSE, message |-> <<>>]

Entry(op, ok, program, args, cwd, r) ==
    [op |-> op, ok |-> ok, program |-> program, args |-> args, cwd |-> cwd, proc |-> r]

Logged(op, ok, program, args, cwd) == Append(log, Entry(op, ok, program, args, cwd, NoProc))

LoggedRun(op, r, program, args, cwd) ==
    Append(log, Entry(op, run(r).ok, program, args, cwd, r))

Raise(from, message) ==
    /\ outcome' = "raised"
    /\ error' = [from |-> from, message |-> message]
    /\ pc' = "done"

NoError == [from |-> "", message |-> <<>>]

\* what a failing git command prints on its stderr
GitStderr(cmd) == "stderr of git " \o cmd

\* the part of that stderr the error thrown by execFileSync carries: the stream
\* is read only when stdio is "pipe"
captured(stdio, cmd) == IF stdio = "pipe" THEN << GitStderr(cmd) >> ELSE <<>>
NoResult == [ran |-> FALSE, ok |-> FALSE, kind |-> "unset"]

\* the completion of the try block when it ends by an exception, not by return
Thrown == [ran |-> FALSE, ok |-> FALSE, kind |-> "thrown"]

-----------------------------------------------------------------------------
(* Step 6: runBestFrontendCheck *)

\* return { ran: false, ok: true }
NoCheckFailed == [ran |-> FALSE, ok |-> FALSE]
NoCheckResult == [ran |-> FALSE, ok |-> TRUE]

\* if (!best) return ...; otherwise createStagedWorktree() is entered
isolatesBeforeReturning(b) == "mkdtemp"
afterSelect(b) == IF b = NoCheck THEN "done" ELSE "mkdtemp"

\* STEP 6A, 6B
Select ==
    /\ pc = "start"
    /\ best' = pickBestCheck(manifest, tsconfig, lockfiles)
    /\ pc' = afterSelect(best')
    /\ IF best' = NoCheck
       THEN /\ result' = NoCheckResult
            /\ outcome' = "returned"
       ELSE UNCHANGED <<result, outcome>>
    /\ UNCHANGED <<twoVars, cliVars, repoVars, rootNodeModules, work, worktrees, otherWorktrees, tmp, patch, applyErr,
                   pending, error, log, checkSaw>>

\* STEP 5A: fs.mkdtempSync
Mkdtemp ==
    /\ pc = "mkdtemp"
    /\ \E ok \in BOOLEAN :
        /\ log' = Logged("mkdtemp", ok, "", <<>>, "")
        /\ IF ok
           THEN /\ tmp' = [tmp EXCEPT !.exists = TRUE]
                /\ pc' = "worktree_add"
                /\ UNCHANGED <<outcome, error>>
           ELSE /\ Raise("mkdtemp", <<"ENOSPC">>)
                /\ UNCHANGED tmp
    /\ UNCHANGED <<twoVars, cliVars, repoVars, rootNodeModules, work, worktrees, otherWorktrees, best, patch, applyErr,
                   pending, result, checkSaw>>

\* STEP 5B: git worktree add --detach wtDir HEAD, stdio ignored, in the process's cwd
WorktreeAdd ==
    /\ pc = "worktree_add"
    /\ \E ok \in BOOLEAN :
        /\ log' = Logged("worktree_add", ok, "git", <<"worktree", "add", "--detach", wtDir, "HEAD">>, "process.cwd()")
        /\ IF ok
           THEN /\ IF gitCwd = "repoRoot"
                   THEN worktrees' = worktrees \cup {wtDir} /\ UNCHANGED otherWorktrees
                   ELSE otherWorktrees' = otherWorktrees \cup {wtDir} /\ UNCHANGED worktrees
                /\ tmp' = [tmp EXCEPT !.wtDir = TRUE, !.wt = GitHead,
                                      !.nm = IF nmTracked /\ gitCwd = "repoRoot"
                                             THEN "tracked" ELSE "none"]
                /\ pc' = "diff"
                /\ UNCHANGED <<outcome, error>>
           ELSE /\ Raise("worktree_add", <<"Command failed: git worktree add">> \o captured("ignore", "worktree add"))
                /\ UNCHANGED <<worktrees, otherWorktrees, tmp>>
    /\ UNCHANGED <<twoVars, cliVars, repoVars, rootNodeModules, work, best, patch, applyErr,
                   pending, result, checkSaw>>

\* STEP 5C: git diff --cached, in the process's cwd
DiffCached ==
    /\ pc = "diff"
    /\ \E ok \in BOOLEAN :
        /\ log' = Logged("diff", ok, "git", <<"diff", "--cached">>, "process.cwd()")
        /\ IF ok
           THEN /\ patch' = GitDiffCached(GitHead, GitIndex, work)
                /\ pc' = "write"
                /\ UNCHANGED <<outcome, error>>
           ELSE /\ Raise("diff", <<"Command failed: git diff --cached">> \o captured("pipe", "diff"))
                /\ UNCHANGED patch
    /\ UNCHANGED <<twoVars, cliVars, repoVars, rootNodeModules, work, worktrees, otherWorktrees, tmp, best, applyErr,
                   pending, result, checkSaw>>

\* STEP 5C: fs.writeFileSync(patchFile, patch)
WritePatch ==
    /\ pc = "write"
    /\ \E ok \in BOOLEAN :
        /\ log' = Logged("write", ok, "", <<>>, "")
        /\ IF ok
           THEN /\ tmp' = [tmp EXCEPT !.patchFile = TRUE]
                /\ pc' = "apply"
                /\ UNCHANGED <<outcome, error>>
           ELSE /\ Raise("write", <<"ENOSPC">>)
                /\ UNCHANGED tmp
    /\ UNCHANGED <<twoVars, cliVars, repoVars, rootNodeModules, work, worktrees, otherWorktrees, best, patch, applyErr,
                   pending, result, checkSaw>>

\* the cwd option of the git apply call
applyCwdRepoRoot == "repoRoot"
applyCwd == "wtDir"

\* try { git apply } catch (e) { ... }: where a finished git apply leads
applyFailureIgnored(ok) == "link"
afterApply(ok) == IF ok THEN "link" ELSE "inline_remove"

\* STEP 5D: git apply --whitespace=nowarn patchFile, when patch.trim() is not empty
ApplyPatch ==
    /\ pc = "apply"
    /\ IF PatchBlank(patch)
       THEN /\ pc' = "link"
            /\ UNCHANGED <<tmp, work, applyErr, log>>
       ELSE \E ok \in BOOLEAN :
            LET tree == IF applyCwd = "wtDir" THEN tmp.wt ELSE work
            IN  /\ ok => Applicable(tree, patch)
                /\ log' = Logged("apply", ok, "git", <<"apply", "--whitespace=nowarn", "staged.patch">>, applyCwd)
                /\ pc' = afterApply(ok)
                /\ IF ok
                   THEN /\ IF applyCwd = "wtDir"
                           THEN tmp' = [tmp EXCEPT !.wt = Apply(tree, patch)] /\ UNCHANGED work
                           ELSE work' = Apply(tree, patch) /\ UNCHANGED tmp
                        /\ UNCHANGED applyErr
                   ELSE /\ applyErr' = captured("pipe", "apply")
                        /\ UNCHANGED <<tmp, work>>
    /\ UNCHANGED <<twoVars, cliVars, repoVars, rootNodeModules, worktrees, otherWorktrees, best, patch, pending, result,
                   outcome, error, checkSaw>>

\* git worktree remove --force wtDir: deregisters the copy and deletes its directory
Removed(ok) ==
    IF ok
    THEN /\ worktrees' = IF gitCwd = "repoRoot" THEN worktrees \ {wtDir} ELSE worktrees
         /\ otherWorktrees' = IF gitCwd = "repoRoot" THEN otherWorktrees ELSE otherWorktrees \ {wtDir}
         /\ tmp' = [tmp EXCEPT !.wtDir = FALSE, !.wt = NoTmp.wt, !.nm = "none"]
    ELSE UNCHANGED <<worktrees, otherWorktrees, tmp>>

\* fs.rmSync(base, { recursive: true, force: true }): a link inside is unlinked, not followed
Deleted(ok) == IF ok THEN tmp' = NoTmp ELSE UNCHANGED tmp

\* the statement after the first try/catch of the catch block
skipRmWhenRemoveFailed(ok) == IF ok THEN "inline_rm" ELSE "throw"
afterInlineRemove(ok) == "inline_rm"

\* catch (e): try { git worktree remove --force } catch {}
InlineRemove ==
    /\ pc = "inline_remove"
    /\ \E ok \in BOOLEAN :
        /\ log' = Logged("remove", ok, "git", <<"worktree", "remove", "--force", wtDir>>, "process.cwd()")
        /\ Removed(ok)
        /\ pc' = afterInlineRemove(ok)
    /\ UNCHANGED <<twoVars, cliVars, repoVars, rootNodeModules, work, best, patch, applyErr, pending,
                   result, outcome, error, checkSaw>>

\* catch (e): try { fs.rmSync(base) } catch {}
InlineRm ==
    /\ pc = "inline_rm"
    /\ \E ok \in BOOLEAN :
        /\ log' = Logged("rm", ok, "", <<>>, "")
        /\ Deleted(ok)
        /\ pc' = "throw"
    /\ UNCHANGED <<twoVars, cliVars, repoVars, rootNodeModules, work, worktrees, otherWorktrees, best, patch, applyErr,
                   pending, result, outcome, error, checkSaw>>

\* throw new Error("Failed to apply staged patch in worktree. ..." + stdout + stderr)
ThrowApplyError ==
    /\ pc = "throw"
    /\ Raise("apply", <<"Failed to apply staged patch in worktree.",
                        "Staged changes could not be reproduced for testing.">> \o applyErr)
    /\ UNCHANGED <<twoVars, cliVars, repoVars, rootNodeModules, work, worktrees, otherWorktrees, tmp, best, patch, applyErr,
                   pending, result, log, checkSaw>>

\* try { fs.symlinkSync(...) } catch {}: whether a failed link leaves the try block
\* of STEP 6D as an exception
linkErrorPropagates(ok) == ~ok
linkErrorThrown(ok) == FALSE

\* STEP 6D: reuse the root's node_modules through a link
Link ==
    /\ pc = "link"
    /\ IF hasNodeModules /\ ~wtNodeModulesExists
       THEN \E ok \in BOOLEAN :
            /\ log' = Logged("link", ok, "", <<>>, "")
            /\ tmp' = [tmp EXCEPT !.nm = IF ok THEN "link" ELSE @]
            /\ IF linkErrorThrown(ok)
               THEN pending' = Thrown /\ pc' = "cleanup_remove"
               ELSE pc' = "install" /\ UNCHANGED pending
       ELSE /\ pc' = "install"
            /\ UNCHANGED <<tmp, pending, log>>
    /\ UNCHANGED <<twoVars, cliVars, repoVars, rootNodeModules, work, worktrees, otherWorktrees, best, patch, applyErr,
                   result, outcome, error, checkSaw>>

\* program and installArgs
installCommand(files) ==
    LET pm == detectPm(files)
    IN  IF pm = "pnpm" THEN [program |-> "npx", args |-> <<"-y", "pnpm", "install", "--frozen-lockfile">>]
        ELSE IF pm = "yarn" THEN [program |-> "npx", args |-> <<"-y", "yarn", "install", "--frozen-lockfile">>]
        ELSE [program |-> "npm",
              args |-> IF exists(files, "package-lock.json") THEN <<"ci">> ELSE <<"install">>]

\* the result returned when !installResult.ok
installFailure(cmd, installResult) ==
    [ran |-> TRUE, ok |-> FALSE, kind |-> cmd.kind, name |-> cmd.name,
     output |-> <<"Failed to install dependencies in worktree:", "\n">> \o installResult.output]

\* if (!installResult.ok) return ...
installFailureIgnored(ok) == "check"
afterInstall(ok) == IF ok THEN "check" ELSE "cleanup_remove"

\* STEP 6D: install when the copy still has no node_modules
Install ==
    /\ pc = "install"
    /\ IF ~wtNodeModulesExists
       THEN \E r \in ProcResults :
            LET cmd == installCommand(lockfiles)
                installResult == run(r)
            IN  /\ log' = LoggedRun("install", r, cmd.program, cmd.args, wtDir)
                /\ tmp' = [tmp EXCEPT !.nm = IF r.exited THEN "installed" ELSE @]
                /\ pending' = IF installResult.ok THEN pending ELSE installFailure(best, installResult)
                /\ pc' = afterInstall(installResult.ok)
       ELSE /\ pc' = "check"
            /\ UNCHANGED <<tmp, pending, log>>
    /\ UNCHANGED <<twoVars, cliVars, repoVars, rootNodeModules, work, worktrees, otherWorktrees, best, patch, applyErr,
                   result, outcome, error, checkSaw>>

\* STEP 6F: the result of the executed check
checkResultNamesProgram(cmd, r) ==
    [ran |-> TRUE, ok |-> r.ok, kind |-> cmd.kind, name |-> cmd.program, output |-> r.output]

checkResult(cmd, r) ==
    [ran |-> TRUE, ok |-> r.ok, kind |-> cmd.kind, name |-> cmd.name, output |-> r.output]

\* package.json of the isolated copy: HEAD with the staged patch applied, of
\* the repository the copy was registered from; the other repository has none
copyManifest == IF gitCwd = "repoRoot" THEN stagedManifest ELSE NoManifest

\* the script a `<pm> test` or `<pm> run <script>` command names
scriptNamed(cmd) == cmd.args[Len(cmd.args)]

\* a package manager asked for a script that the package.json in its cwd does
\* not declare exits with a non-zero status
scriptMissing(cmd) ==
    /\ cmd.program # "npx"
    /\ \/ copyManifest.kind # "object"
       \/ ~Truthy(ScriptOf(copyManifest.scripts, scriptNamed(cmd)))

\* try { ... return { ran: true, ... } } finally { cleanup() }: where the return
\* statement after the check leads
checkReturnsAtOnce == "return"
afterCheck == "cleanup_remove"

\* STEP 6E: run(best.program, best.args, dir); a check that was launched may
\* write under node_modules, which reaches the root's when it is a link
Check ==
    /\ pc = "check"
    /\ \E r \in ProcResults :
       \E wrote \in IF tmp.nm = "link" /\ (r.exited \/ ~r.failed) THEN BOOLEAN ELSE {FALSE} :
        /\ scriptMissing(best) => ~run(r).ok
        /\ log' = LoggedRun("check", r, best.program, best.args, wtDir)
        /\ checkSaw' = tmp.wt
        /\ rootNodeModules' = IF wrote THEN "modified" ELSE rootNodeModules
        /\ pending' = checkResult(best, run(r))
        /\ pc' = afterCheck
    /\ UNCHANGED <<twoVars, cliVars, repoVars, work, worktrees, otherWorktrees, tmp, best, patch, applyErr, result,
                   outcome, error>>

\* the statement after the first try/catch of cleanup
cleanupStopsWhenRemoveFailed(ok) == IF ok THEN "cleanup_rm" ELSE "return"
afterCleanupRemove(ok) == "cleanup_rm"

\* STEP 6G, cleanup(): try { git worktree remove --force } catch {}
CleanupRemove ==
    /\ pc = "cleanup_remove"
    /\ \E ok \in BOOLEAN :
        /\ log' = Logged("cleanup.remove", ok, "git", <<"worktree", "remove", "--force", wtDir>>, "process.cwd()")
        /\ Removed(ok)
        /\ pc' = afterCleanupRemove(ok)
    /\ UNCHANGED <<twoVars, cliVars, repoVars, rootNodeModules, work, best, patch, applyErr, pending,
                   result, outcome, error, checkSaw>>

\* STEP 6G, cleanup(): try { fs.rmSync(base) } catch {}
CleanupRm ==
    /\ pc = "cleanup_rm"
    /\ \E ok \in BOOLEAN :
        /\ log' = Logged("cleanup.rm", ok, "", <<>>, "")
        /\ Deleted(ok)
        /\ pc' = "return"
    /\ UNCHANGED <<twoVars, cliVars, repoVars, rootNodeModules, work, worktrees, otherWorktrees, best, patch, applyErr,
                   pending, result, outcome, error, checkSaw>>

\* finally is over: the completion of the try block reaches the caller
Return ==
    /\ pc = "return"
    /\ IF pending = Thrown
       THEN /\ Raise("try", <<"error thrown inside the try block">>)
            /\ UNCHANGED result
       ELSE /\ result' = pending
            /\ outcome' = "returned"
            /\ pc' = "done"
            /\ UNCHANGED error
    /\ UNCHANGED <<twoVars, cliVars, repoVars, rootNodeModules, work, worktrees, otherWorktrees, tmp, best, patch, applyErr,
                   pending, log, checkSaw>>

-----------------------------------------------------------------------------
(* Step 5 and 5E run by two processes on one repository *)

Procs == {"p1", "p2"}

\* directory names fs.mkdtempSync(path.join(os.tmpdir(), "commitwise-")) can
\* produce: the prefix and six characters
TmpNames == {"commitwise-aaaaaa", "commitwise-bbbbbb", "commitwise-cccccc"}

\* const wtDir = path.join(base, "wt")
wtDirOf(base) == base \o "/wt"

\* mkdtemp creates a directory that did not exist
anyName(existing) == TmpNames
freshNames(existing) == TmpNames \ existing

NoCall == [pc |-> "idle", base |-> ""]

IdleTwo ==
    /\ calls = [p \in Procs |-> NoCall]
    /\ osTmp = {}
    /\ registry = {}

At(p, where) == calls[p].pc = where

Goto(p, where) == calls' = [calls EXCEPT ![p].pc = where]

\* STEP 5A
TwoMkdtemp(p) ==
    /\ At(p, "mkdtemp")
    /\ \E ok \in BOOLEAN :
        IF ok
        THEN \E n \in freshNames(osTmp) :
                /\ calls' = [calls EXCEPT ![p] = [pc |-> "worktree_add", base |-> n]]
                /\ osTmp' = osTmp \cup {n}
        ELSE Goto(p, "raised") /\ UNCHANGED osTmp
    /\ UNCHANGED <<callVars, cliVars, registry>>

\* STEP 5B: git refuses a path that exists or is registered already
TwoWorktreeAdd(p) ==
    /\ At(p, "worktree_add")
    /\ LET wt == wtDirOf(calls[p].base)
       IN  \E ok \in BOOLEAN :
            IF ok /\ wt \notin osTmp /\ wt \notin registry
            THEN /\ registry' = registry \cup {wt}
                 /\ osTmp' = osTmp \cup {wt}
                 /\ Goto(p, "diff")
            ELSE Goto(p, "raised") /\ UNCHANGED <<osTmp, registry>>
    /\ UNCHANGED <<callVars, cliVars>>

\* STEP 5C: git diff --cached, then the patch file written below base
TwoDiffCached(p) ==
    /\ At(p, "diff")
    /\ \E ok \in BOOLEAN : Goto(p, IF ok THEN "apply" ELSE "raised")
    /\ UNCHANGED <<callVars, cliVars, osTmp, registry>>

\* STEP 5D: a failed apply enters the catch block
TwoApplyPatch(p) ==
    /\ At(p, "apply")
    /\ \E ok \in BOOLEAN : Goto(p, IF ok THEN "in_use" ELSE "inline_remove")
    /\ UNCHANGED <<callVars, cliVars, osTmp, registry>>

\* git worktree remove --force wtDir, errors swallowed
TwoRemove(p, next) ==
    /\ \E ok \in BOOLEAN :
        LET wt == wtDirOf(calls[p].base)
        IN  IF ok /\ wt \in registry
            THEN registry' = registry \ {wt} /\ osTmp' = osTmp \ {wt}
            ELSE UNCHANGED <<osTmp, registry>>
    /\ Goto(p, next)
    /\ UNCHANGED <<callVars, cliVars>>

\* fs.rmSync(base, { recursive: true, force: true }), errors swallowed
TwoRm(p, next) ==
    /\ \E ok \in BOOLEAN :
        IF ok THEN osTmp' = osTmp \ {calls[p].base, wtDirOf(calls[p].base)}
        ELSE UNCHANGED osTmp
    /\ Goto(p, next)
    /\ UNCHANGED <<callVars, cliVars, registry>>

TwoInlineRemove(p) == At(p, "inline_remove") /\ TwoRemove(p, "inline_rm")

TwoInlineRm(p) == At(p, "inline_rm") /\ TwoRm(p, "raised")

\* STEP 6D-6E: link or install, then the check, all inside wtDir
TwoRunInCopy(p) ==
    /\ At(p, "in_use")
    /\ Goto(p, "cleanup_remove")
    /\ UNCHANGED <<callVars, cliVars, osTmp, registry>>

TwoCleanupRemove(p) == At(p, "cleanup_remove") /\ TwoRemove(p, "cleanup_rm")

TwoCleanupRm(p) == At(p, "cleanup_rm") /\ TwoRm(p, "returned")

-----------------------------------------------------------------------------
(* The commands: src/src/cli/index.ts and the flows it starts *)

\* longest run of the approval loop, in prompts answered with something other
\* than accept or cancel
MaxRounds == 2

Commands == {"auto", "scan", "suggest"}

\* outputs of `git diff --cached`: nothing, white space only, a change
StagedDiffs == { <<>>, <<" ", "\n">>, <<"diff --git a/a.ts b/a.ts", "\n">> }

\* completion.choices[0]?.message.content: absent, white space, a message
Completions ==
    { [present |-> FALSE, text |-> <<>>],
      [present |-> TRUE, text |-> <<" ", "\n">>],
      [present |-> TRUE, text |-> <<" ", "feat: add a", "\n", "body">>] }

\* content?.trim() ?? "chore: update code", then the first line of it
generateCommitMessage(content) ==
    IF ~content.present THEN "chore: update code"
    ELSE IF Trim(content.text) = <<>> THEN ""
    ELSE Trim(content.text)[1]

\* what the language model returns as a commit message, and what the user
\* leaves in the editor
Messages == { generateCommitMessage(c) : c \in Completions }
EditedMessages == {"", "fix: edited"}

\* lines typed at a prompt
RawAnswers ==
    { <<"y">>, <<"YES">>, <<"n">>, <<" ", "No", "\n">>, <<"e">>, <<"edit">>, <<"r">>,
      <<"maybe">>, <<>> }

\* results of runBestFrontendCheck(process.cwd()) as its caller sees them
CheckOutcomes ==
    { [raised |-> TRUE, ran |-> FALSE, ok |-> FALSE],
      [raised |-> FALSE, ran |-> FALSE, ok |-> TRUE],
      [raised |-> FALSE, ran |-> TRUE, ok |-> TRUE],
      [raised |-> FALSE, ran |-> TRUE, ok |-> FALSE] }

Null == "<null>"
SYSTEM_PROMPT_NO_CHECKS == "SYSTEM_PROMPT_NO_CHECKS"
SYSTEM_PROMPT_CHECKS_PASSED == "SYSTEM_PROMPT_CHECKS_PASSED"

toLowerCase(w) ==
    IF w = "YES" THEN "yes" ELSE IF w = "No" THEN "no" ELSE w

\* (await rl.question(question)).trim().toLowerCase()
askChoice(raw) == IF Trim(raw) = <<>> THEN "" ELSE toLowerCase(Trim(raw)[1])

isNotNo(answer) == answer # "n" /\ answer # "no"
isYes(answer) == answer = "y" \/ answer = "yes"

isNo(answer) == answer = "n" \/ answer = "no"

Event(kind, what) == [kind |-> kind, what |-> what]

IdleCli ==
    /\ command = "auto"
    /\ scanEnabled = FALSE
    /\ staged = <<>>
    /\ diff = <<>>
    /\ cliPc = "idle"
    /\ exitCode = -1
    /\ systemPrompt = Null
    /\ msg = ""
    /\ rounds = 0
    /\ events = <<>>

\* process.exit(code), and the end of the command's promise (status 0)
Exit(code) == cliPc' = "exited" /\ exitCode' = code

Emit(es) == events' = events \o es

cliInputs == <<command, scanEnabled, staged>>

\* getStagedDiff
CliGetStagedDiff ==
    /\ cliPc = "start"
    /\ \E ok \in BOOLEAN :
        IF ok THEN diff' = staged /\ cliPc' = "validate" /\ UNCHANGED exitCode
        ELSE Exit(1) /\ UNCHANGED diff
    /\ UNCHANGED <<callVars, twoVars, cliInputs, systemPrompt, msg, rounds, events>>

\* !diff.trim()
onlyEmpty(d) == d = <<>>
noStagedChanges(d) == Trim(d) = <<>>

\* the statement that follows validateStagedChanges(diff) in each command
afterValidate ==
    IF command = "suggest" THEN "generate"
    ELSE IF command = "scan" THEN "checks"
    ELSE IF scanEnabled THEN "checks" ELSE "generate"

\* validateStagedChanges
CliValidateStagedChanges ==
    /\ cliPc = "validate"
    /\ IF noStagedChanges(diff) THEN Exit(1)
       ELSE cliPc' = afterValidate /\ UNCHANGED exitCode
    /\ UNCHANGED <<callVars, twoVars, cliInputs, diff, systemPrompt, msg, rounds, events>>

\* how runFrontendChecks reads the result: check.ran, then check.ok
Verdict(check) ==
    IF check.raised THEN "raised"
    ELSE IF ~check.ran THEN "not run"
    ELSE IF ~check.ok THEN "failed"
    ELSE "passed"

\* runFrontendChecks; an error of runBestFrontendCheck or of the summary
\* request reaches handleCommandError
CliRunFrontendChecks ==
    /\ cliPc = "checks"
    /\ \E check \in CheckOutcomes :
        LET called == << Event("check", Verdict(check)) >>
            summary == << Event("llm", "summarizeCheckOutput") >>
        IN  IF check.raised THEN Emit(called) /\ Exit(1) /\ UNCHANGED systemPrompt
            ELSE IF ~check.ran
            THEN /\ Emit(called)
                 /\ systemPrompt' = Null
                 /\ cliPc' = "scan" /\ UNCHANGED exitCode
            ELSE IF ~check.ok
            THEN \E llmOk \in BOOLEAN :
                    IF ~llmOk THEN Emit(called \o summary) /\ Exit(1) /\ UNCHANGED systemPrompt
                    ELSE \E raw \in RawAnswers :
                            /\ Emit(called \o summary \o << Event("ask", askChoice(raw)) >>)
                            /\ IF isNo(askChoice(raw)) THEN Exit(0) /\ UNCHANGED systemPrompt
                               ELSE /\ systemPrompt' = SYSTEM_PROMPT_NO_CHECKS
                                    /\ cliPc' = "scan" /\ UNCHANGED exitCode
            ELSE /\ Emit(called)
                 /\ systemPrompt' = SYSTEM_PROMPT_CHECKS_PASSED
                 /\ cliPc' = "scan" /\ UNCHANGED exitCode
    /\ UNCHANGED <<callVars, twoVars, cliInputs, diff, msg, rounds>>

\* systemPrompt || SYSTEM_PROMPT_NO_CHECKS
promptAsReturned(p) == p
promptOr(p) == IF p = Null \/ p = "" THEN SYSTEM_PROMPT_NO_CHECKS ELSE p

\* handleScanPhase, performCodeScan; scanOnly ends after it
CliHandleScanPhase ==
    /\ cliPc = "scan"
    /\ LET request == << Event("llm", promptOr(systemPrompt)) >>
           continue ==
               IF command = "scan" THEN Exit(0)
               ELSE cliPc' = "generate" /\ UNCHANGED exitCode
       IN  \E llmOk \in BOOLEAN :
            IF ~llmOk THEN Emit(request) /\ Exit(1)
            ELSE \E issues \in BOOLEAN :
                    IF issues
                    THEN \E raw \in RawAnswers :
                            /\ Emit(request \o << Event("ask", askChoice(raw)) >>)
                            /\ IF isNo(askChoice(raw)) THEN Exit(0) ELSE continue
                    ELSE Emit(request) /\ continue
    /\ UNCHANGED <<callVars, twoVars, cliInputs, diff, systemPrompt, msg, rounds>>

\* generateCommitMessage; suggestOnly prints the message and ends
CliGenerate ==
    /\ cliPc = "generate"
    /\ \E llmOk \in BOOLEAN :
        IF ~llmOk
        THEN Emit(<< Event("llm", "generateCommitMessage") >>) /\ Exit(1) /\ UNCHANGED msg
        ELSE \E m \in Messages :
                /\ msg' = m
                /\ IF command = "suggest"
                   THEN /\ Emit(<< Event("llm", "generateCommitMessage"), Event("print", m) >>)
                        /\ Exit(0)
                   ELSE /\ Emit(<< Event("llm", "generateCommitMessage") >>)
                        /\ cliPc' = "approve" /\ UNCHANGED exitCode
    /\ UNCHANGED <<callVars, twoVars, cliInputs, diff, systemPrompt, rounds>>

\* one iteration of the loop of approveCommitMessage: the message is shown,
\* the user is asked, handleApprovalChoice acts on the answer
CliApprove ==
    /\ cliPc = "approve"
    /\ \E raw \in RawAnswers :
        LET choice == askChoice(raw)
            shown == << Event("display", msg), Event("ask", choice) >>
        IN  /\ isYes(choice) \/ isNo(choice) \/ rounds < MaxRounds
            /\ rounds' = rounds + 1
            /\ IF isNo(choice) THEN Emit(shown) /\ Exit(0) /\ UNCHANGED msg
               ELSE IF choice = "r"
               THEN \E llmOk \in BOOLEAN :
                        /\ Emit(shown \o << Event("llm", "generateCommitMessage") >>)
                        /\ IF ~llmOk THEN Exit(1) /\ UNCHANGED msg
                           ELSE \E newMessage \in Messages :
                                   /\ msg' = IF newMessage # "" THEN newMessage ELSE msg
                                   /\ UNCHANGED <<cliPc, exitCode>>
               ELSE IF choice = "e" \/ choice = "edit"
               THEN \E editorOk \in BOOLEAN :
                        IF ~editorOk
                        THEN /\ Emit(shown \o << Event("editor", "failed") >>)
                             /\ Exit(1) /\ UNCHANGED msg
                        ELSE \E edited \in EditedMessages :
                                /\ Emit(shown \o << Event("edited", edited) >>)
                                /\ IF edited = "" THEN Exit(1) /\ UNCHANGED msg
                                   ELSE msg' = edited /\ UNCHANGED <<cliPc, exitCode>>
               ELSE IF isYes(choice)
               THEN Emit(shown) /\ cliPc' = "commit" /\ UNCHANGED <<msg, exitCode>>
               ELSE Emit(shown) /\ UNCHANGED <<msg, cliPc, exitCode>>
    /\ UNCHANGED <<callVars, twoVars, cliInputs, diff, systemPrompt>>

\* commitWithMessage(finalMessage); a failing git commit reaches
\* handleCommandError
CliCommit ==
    /\ cliPc = "commit"
    /\ Emit(<< Event("commit", msg) >>)
    /\ \E ok \in BOOLEAN : Exit(IF ok THEN 0 ELSE 1)
    /\ UNCHANGED <<callVars, twoVars, cliInputs, diff, systemPrompt, msg, rounds>>

-----------------------------------------------------------------------------
(* Specifications *)

\* the repository roots a call is started on: at most one script declared
CallScriptDecls == { <<n, "cmd">> : n \in ScriptNames } \cup { <<"test", "">> }

CallManifests ==
    {NoManifest, BadManifest}
    \cup { [kind |-> "object", scripts |-> s, deps |-> {}] :
             s \in {<<>>} \cup { <<d>> : d \in CallScriptDecls } }

\* at most one lockfile, or a bun lockfile next to package-lock.json
CallLockfiles ==
    { {} } \cup { {n} : n \in LockfileNames } \cup { {"bun.lock", "package-lock.json"} }

InitCall ==
    /\ best = NoCheck
    /\ patch = {}
    /\ applyErr = <<>>
    /\ pending = NoResult
    /\ result = NoResult
    /\ outcome = "none"
    /\ error = NoError
    /\ log = <<>>
    /\ checkSaw = NoTmp.wt
    /\ tmp = NoTmp
    /\ worktrees = {}
    /\ otherWorktrees = {}
    /\ branch = [name |-> "main", commit |-> "c1"]

\* runFrontendChecks passes process.cwd() as repoRoot, and nothing of
\* package.json is left unstaged
CalledFromRoot ==
    /\ processCwd = "repoRoot"
    /\ stagedManifest = manifest

\* a state in which nothing of the call has run
InitRepo ==
    /\ InitCall
    /\ pc = "idle"
    /\ manifest = NoManifest
    /\ tsconfig = FALSE
    /\ lockfiles = {}
    /\ rootNodeModules = "absent"
    /\ nmTracked = FALSE
    /\ head = NoTmp.wt
    /\ index = NoTmp.wt
    /\ work = NoTmp.wt
    /\ CalledFromRoot

Init ==
    /\ InitCall
    /\ IdleTwo
    /\ IdleCli
    /\ pc = "start"
    /\ manifest \in CallManifests
    /\ tsconfig \in BOOLEAN
    /\ lockfiles \in CallLockfiles
    /\ rootNodeModules \in {"absent", "present"}
    /\ nmTracked \in BOOLEAN
    /\ nmTracked => rootNodeModules = "present"
    /\ head = [f \in Files |-> "v1"]
    /\ index \in Trees
    /\ work \in Trees
    /\ CalledFromRoot

Next ==
    \/ Select
    \/ Mkdtemp
    \/ WorktreeAdd
    \/ DiffCached
    \/ WritePatch
    \/ ApplyPatch
    \/ InlineRemove
    \/ InlineRm
    \/ ThrowApplyError
    \/ Link
    \/ Install
    \/ Check
    \/ CleanupRemove
    \/ CleanupRm
    \/ Return

Spec == Init /\ [][Next]_vars

\* pickBestCheck(repoRoot) on its own
PickBest ==
    /\ pc = "select"
    /\ best' = pickBestCheck(manifest, tsconfig, lockfiles)
    /\ pc' = "selected"
    /\ UNCHANGED <<twoVars, cliVars, repoVars, rootNodeModules, work, worktrees, otherWorktrees, tmp, patch, applyErr,
                   pending, result, outcome, error, log, checkSaw>>

SelectLockfiles == { {} } \cup { {n} : n \in LockfileNames }

InitSelect ==
    /\ InitCall
    /\ IdleTwo
    /\ IdleCli
    /\ pc = "select"
    /\ manifest \in {NoManifest, BadManifest, NullManifest} \cup ObjectManifests(MaxScripts, DepSets)
    /\ tsconfig \in BOOLEAN
    /\ lockfiles \in SelectLockfiles
    /\ rootNodeModules = "absent"
    /\ nmTracked = FALSE
    /\ head = NoTmp.wt
    /\ index = NoTmp.wt
    /\ work = NoTmp.wt
    /\ CalledFromRoot

NextSelect == PickBest

SpecSelect == InitSelect /\ [][NextSelect]_vars

\* pickBestCheck(repoRoot) on a root holding any combination of lockfiles
InitLockfiles ==
    /\ InitCall
    /\ IdleTwo
    /\ IdleCli
    /\ pc = "select"
    /\ manifest \in CallManifests
    /\ tsconfig \in BOOLEAN
    /\ lockfiles \in SUBSET LockfileNames
    /\ rootNodeModules = "absent"
    /\ nmTracked = FALSE
    /\ head = NoTmp.wt
    /\ index = NoTmp.wt
    /\ work = NoTmp.wt
    /\ CalledFromRoot

SpecLockfiles == InitLockfiles /\ [][NextSelect]_vars

\* runBestFrontendCheck(repoRoot) called from any working directory, on a
\* repository whose package.json may have changes that are not staged
RootManifests ==
    { NoManifest,
      [kind |-> "object", scripts |-> << <<"test", "cmd">> >>, deps |-> {}],
      [kind |-> "object", scripts |-> << <<"build", "cmd">> >>, deps |-> {}] }

InitAnyRoot ==
    /\ InitCall
    /\ IdleTwo
    /\ IdleCli
    /\ pc = "start"
    /\ processCwd \in {"repoRoot", "otherRepo"}
    /\ manifest \in RootManifests
    /\ stagedManifest \in RootManifests
    /\ tsconfig \in BOOLEAN
    /\ lockfiles \in { {}, {"pnpm-lock.yaml"} }
    /\ rootNodeModules \in {"absent", "present"}
    /\ nmTracked = FALSE
    /\ head = [f \in Files |-> "v1"]
    /\ index \in Trees
    /\ work = index

SpecAnyRoot == InitAnyRoot /\ [][Next]_vars

\* two processes, each past the selection of a command
InitTwo ==
    /\ InitRepo
    /\ IdleCli
    /\ calls = [p \in Procs |-> [pc |-> "mkdtemp", base |-> ""]]
    /\ osTmp = {}
    /\ registry = {}

NextTwo ==
    \E p \in Procs :
        \/ TwoMkdtemp(p)
        \/ TwoWorktreeAdd(p)
        \/ TwoDiffCached(p)
        \/ TwoApplyPatch(p)
        \/ TwoInlineRemove(p)
        \/ TwoInlineRm(p)
        \/ TwoRunInCopy(p)
        \/ TwoCleanupRemove(p)
        \/ TwoCleanupRm(p)

SpecTwo == InitTwo /\ [][NextTwo]_vars

\* one run of a command
InitCli ==
    /\ InitRepo
    /\ IdleTwo
    /\ command \in Commands
    /\ scanEnabled \in BOOLEAN
    /\ staged \in StagedDiffs
    /\ diff = <<>>
    /\ cliPc = "start"
    /\ exitCode = -1
    /\ systemPrompt = Null
    /\ msg = ""
    /\ rounds = 0
    /\ events = <<>>

NextCli ==
    \/ CliGetStagedDiff
    \/ CliValidateStagedChanges
    \/ CliRunFrontendChecks
    \/ CliHandleScanPhase
    \/ CliGenerate
    \/ CliApprove
    \/ CliCommit

SpecCli == InitCli /\ [][NextCli]_vars

-----------------------------------------------------------------------------
(* Properties *)

Steps(op) == { i \in 1..Len(log) : log[i].op = op }
Attempted(op) == Steps(op) # {}
Failed(op) == \E i \in Steps(op) : ~log[i].ok

\* C1: after any call that completes (a result returned, an install-failure
\* result, or an isolation failure raised) no worktree registration of the call
\* remains and its temporary directory no longer exists.
C1_CleanupTotality ==
    pc = "done" => wtDir \notin worktrees /\ ~tmp.exists

\* C2: whatever the outcome of the call, no step changes the user's current
\* branch pointer, the HEAD commit, the staged index or the tracked files of the
\* user's working tree (nor the manifest, tsconfig.json and lockfiles beside them).
C2_UserRepositoryUntouched ==
    [][branch' = branch /\ head' = head /\ index' = index /\ work' = work
       /\ manifest' = manifest /\ tsconfig' = tsconfig /\ lockfiles' = lockfiles]_vars

\* a call that applied a staged change the working tree does not hold, ran the
\* check and returned
C2_Witness ==
    /\ pc = "done"
    /\ outcome = "returned"
    /\ \E i \in Steps("apply") : log[i].ok
    /\ Attempted("check")
    /\ work # index

\* C3: once git apply of the non-empty staged patch has failed, the call never
\* attempts the link, the install or the check; it ends by raising the apply
\* error, and by then the worktree removal and the deletion of the temporary
\* directory have both been attempted, in this order, the deletion also when the
\* removal failed.
C3_ApplyFailureIsHardStop ==
    Failed("apply") =>
        /\ ~Attempted("link") /\ ~Attempted("install") /\ ~Attempted("check")
        /\ outcome # "returned"
        /\ pc = "done" =>
            /\ outcome = "raised"
            /\ error.from = "apply"
            /\ \E i \in Steps("remove") : \E j \in Steps("rm") : i < j

\* the apply failed, the worktree removal failed too, and the error was raised
C3_Witness ==
    /\ pc = "done"
    /\ Failed("apply")
    /\ Failed("remove")
    /\ outcome = "raised"

\* C4: whenever the selected check was executed, it ran in the isolated copy,
\* whose tracked content was HEAD with the staged diff captured by this call
\* applied (HEAD itself when that diff is empty), which is the content of the
\* index: an unstaged modification of the working tree is not in it.
C4_CheckRunsOnStagedSnapshot ==
    \A i \in Steps("check") :
        /\ log[i].cwd = wtDir
        /\ log[i].program = best.program /\ log[i].args = best.args
        /\ patch = Diff(head, index)
        /\ checkSaw = Apply(head, patch)
        /\ PatchBlank(patch) => checkSaw = head
        /\ \A f \in Files : checkSaw[f] = index[f]

\* the check ran while the index differs from HEAD and the working tree from the index
C4_Witness ==
    /\ Attempted("check")
    /\ index # head
    /\ work # index

\* the candidates of pickBestCheck and the rank of each kind, stated from the
\* documented order tests > typecheck > lint > build
Rank(kind) ==
    IF kind = "tests" THEN 1 ELSE IF kind = "typecheck" THEN 2 ELSE IF kind = "lint" THEN 3 ELSE 4

Declared(name) == manifest.kind = "object" /\ Truthy(ScriptOf(manifest.scripts, name))

CandidateKinds ==
    { k \in CheckKinds :
        \/ k = "tests" /\ \E n \in TestScriptNames : Declared(n)
        \/ k = "typecheck" /\ (Declared("typecheck") \/ tsconfig)
        \/ k = "lint" /\ Declared("lint")
        \/ k = "build" /\ Declared("build") }

\* C5: the command pickBestCheck returns has the highest-priority kind among the
\* candidates (declared scripts plus the typecheck fallback); with a test script
\* and a lint script both declared it is the test command, in whatever order the
\* manifest declares them.
C5_PriorityLaw ==
    pc = "selected" =>
        /\ CandidateKinds = {} <=> best = NoCheck
        /\ CandidateKinds # {} =>
            /\ best.kind \in CandidateKinds
            /\ \A k \in CandidateKinds : Rank(best.kind) <= Rank(k)
        /\ (\E n \in TestScriptNames : Declared(n)) /\ Declared("lint") =>
            /\ best.kind = "tests"
            /\ best.program = detectPm(lockfiles)
            /\ best.args[Len(best.args)] \in TestScriptNames
        /\ Declared("test") /\ Declared("lint") =>
            best.name = detectPm(lockfiles) \o " test"

\* lint is declared before test, and the test command is selected
C5_Witness ==
    /\ pc = "selected"
    /\ manifest.scripts = << <<"lint", "cmd">>, <<"test", "cmd">> >>
    /\ best.kind = "tests"

\* C6: the call returns ran:false exactly when there is no candidate (no
\* recognised script declared, or the manifest missing or unparsable, and no
\* tsconfig.json); such a result has ok:true and no kind, name or output, and
\* with no candidate the call always returns it.
C6_NoCheckResult ==
    pc = "done" =>
        /\ outcome = "returned" => (result.ran = FALSE <=> CandidateKinds = {})
        /\ outcome = "returned" /\ result.ran = FALSE =>
            result.ok = TRUE /\ DOMAIN result = {"ran", "ok"}
        /\ CandidateKinds = {} => outcome = "returned" /\ log = <<>>

\* an unparsable manifest without tsconfig.json gave ran:false
C6_Witness ==
    /\ pc = "done"
    /\ manifest.kind = "unparsable"
    /\ outcome = "returned"
    /\ result.ran = FALSE

EndsWith(s, t) == Len(t) <= Len(s) /\ SubSeq(s, Len(s) - Len(t) + 1, Len(s)) = t

NonSpace(s) == SelectSeq(s, LAMBDA t : ~IsSpace(t))

\* C7: when the install in the isolated copy fails (non-zero exit, no exit status,
\* or launch failure) the check is never executed, nothing is raised, and the call
\* returns ran:true, ok:false, the kind and name of the selected command, and an
\* output that carries what the install printed and its launch error.
C7_InstallFailureIsReported ==
    \A i \in Steps("install") :
        LET r == log[i].proc
        IN  ~(r.exited /\ r.status = 0) =>
                /\ ~Attempted("check")
                /\ outcome # "raised"
                /\ pc = "done" =>
                    /\ outcome = "returned"
                    /\ result.ran = TRUE /\ result.ok = FALSE
                    /\ result.kind = best.kind /\ result.name = best.name
                    /\ NonSpace(result.output) =
                         <<"Failed to install dependencies in worktree:">>
                            \o NonSpace(r.stdout \o r.stderr) \o r.message

\* the install could not be launched and the call returned
C7_Witness ==
    /\ pc = "done"
    /\ outcome = "returned"
    /\ \E i \in Steps("install") : log[i].proc.failed /\ log[i].proc.stdout = <<>>

\* C8: for every executed check the result has ok:true exactly when the process
\* exited with status zero; a non-zero status, no exit status, or a launch
\* failure give ok:false, and the launch error text ends the output, after the
\* captured stdout and stderr.
C8_OkIffExitZero ==
    pc = "done" =>
        \A i \in Steps("check") :
            LET r == log[i].proc
            IN  /\ outcome = "returned"
                /\ result.ran = TRUE
                /\ result.ok = TRUE <=> (r.exited /\ r.status = 0)
                /\ NonSpace(result.output) = NonSpace(r.stdout \o r.stderr) \o r.message
                /\ r.failed => result.ok = FALSE /\ EndsWith(result.output, r.message)

\* the check could not be launched: no exit status, nothing captured, ok:false
C8_Witness ==
    /\ pc = "done"
    /\ \E i \in Steps("check") :
        log[i].proc.failed /\ ~log[i].proc.exited /\ log[i].proc.stdout = <<>>
    /\ result.ok = FALSE

IsolationOps == {"mkdtemp", "worktree_add", "diff", "write", "apply"}

IsolationFailed == \E op \in IsolationOps : Failed(op)

\* C9: the call raises exactly when a step of the isolation failed (mkdtemp,
\* worktree add, diff --cached, the patch write, git apply); a missing or
\* unparsable manifest, a failed link, a failed install and a check that fails
\* or cannot be launched end in a returned result.
C9_OnlyIsolationRaises ==
    /\ outcome = "raised" => IsolationFailed /\ error.from \in IsolationOps
    /\ pc = "done" => (outcome = "raised" <=> IsolationFailed)
    /\ pc = "done" /\ ~IsolationFailed => outcome = "returned" /\ error = NoError

\* unparsable manifest, failed link, check that could not be launched: returned
C9_Witness ==
    /\ pc = "done"
    /\ outcome = "returned"
    /\ manifest.kind = "unparsable"
    /\ Failed("link")
    /\ \E i \in Steps("check") : log[i].proc.failed

\* the result the try block computed, from what the log says was run
Computed ==
    IF Attempted("check")
    THEN checkResult(best, run(log[CHOOSE i \in Steps("check") : TRUE].proc))
    ELSE installFailure(best, run(log[CHOOSE i \in Steps("install") : TRUE].proc))

\* C10: cleanup() never raises: whether the worktree removal and the directory
\* deletion succeed or fail, the deletion is attempted after the removal, the call
\* returns normally, and the result is the one computed before cleanup ran.
C10_CleanupNeverRaises ==
    \A i \in Steps("cleanup.remove") :
        /\ outcome # "raised"
        /\ pc \in {"return", "done"} => \E j \in Steps("cleanup.rm") : i < j
        /\ pc = "done" => outcome = "returned" /\ result = pending /\ result = Computed

\* both steps of cleanup failed and the call returned
C10_Witness ==
    /\ pc = "done"
    /\ Failed("cleanup.remove")
    /\ Failed("cleanup.rm")
    /\ outcome = "returned"

Carries(message, text) == \E i \in 1..Len(message) : message[i] = text

\* C11: every isolation failure of a git command -- the worktree registration
\* as well as the patch application -- raises an error that carries the stderr
\* of the git command that failed.
C11_IsolationErrorCarriesStderr ==
    outcome = "raised" =>
        /\ error.from = "worktree_add" => Carries(error.message, GitStderr("worktree add"))
        /\ error.from = "apply" => Carries(error.message, GitStderr("apply"))

Catalog == detectChecksFromPackageJson(manifest, lockfiles)

Combined == allChecks(manifest, tsconfig, lockfiles)

OfKind(list, kind) == { i \in 1..Len(list) : list[i].kind = kind }

\* C12: when the manifest declares a typecheck script the combined candidate
\* list of pickBestCheck holds exactly one typecheck candidate, the declared
\* `<pm> run typecheck`, and no npx fallback, tsconfig.json present or not; the
\* combined list never holds two candidates of one kind.
C12_FallbackSuppression ==
    /\ \A k \in CheckKinds : Cardinality(OfKind(Combined, k)) <= 1
    /\ Declared("typecheck") =>
        /\ Cardinality(OfKind(Combined, "typecheck")) = 1
        /\ \A i \in OfKind(Combined, "typecheck") :
            /\ Combined[i].name = detectPm(lockfiles) \o " run typecheck"
            /\ Combined[i].program # "npx"
        /\ pc = "selected" /\ ~(\E n \in TestScriptNames : Declared(n)) =>
            best.name = detectPm(lockfiles) \o " run typecheck"

\* a typecheck script is declared next to tsconfig.json and the declared
\* command is what pickBestCheck returned
C12_Witness ==
    /\ pc = "selected"
    /\ Declared("typecheck")
    /\ tsconfig
    /\ lockfiles = {"yarn.lock"}
    /\ best.name = "yarn run typecheck"

OnlyDeclared(name) ==
    /\ Declared(name)
    /\ \A n \in (TestScriptNames \cup {"typecheck", "lint", "build"}) \ {name} : ~Declared(n)

NamesVue ==
    /\ manifest.kind = "object"
    /\ \E d \in manifest.deps : d \in { <<"vue">>, <<"@vue/", "compiler-sfc">>, <<"nuxt", "3">> }

\* C13: the typecheck fallback contributes a candidate exactly when the catalog
\* has no typecheck entry and tsconfig.json exists; a manifest declaring only
\* build (or only lint) selects that command without tsconfig.json and the npx
\* fallback with it: vue-tsc when a dependency names vue, @vue/... or nuxt...,
\* tsc otherwise.
C13_FallbackExactlyWhen ==
    LET hasTypecheck == OfKind(Catalog, "typecheck") # {}
        fallback == detectTypecheckFallback(manifest, tsconfig, hasTypecheck)
    IN  /\ Len(fallback) = (IF ~hasTypecheck /\ tsconfig THEN 1 ELSE 0)
        /\ Combined = Catalog \o fallback
        /\ \A i \in 1..Len(fallback) : fallback[i].kind = "typecheck" /\ fallback[i].program = "npx"
        /\ \A k \in {"build", "lint"} :
            pc = "selected" /\ OnlyDeclared(k) =>
                /\ ~tsconfig => best = runScript(detectPm(lockfiles), k, k)
                /\ tsconfig /\ NamesVue =>
                    best.name = "npx vue-tsc --noEmit" /\ best.args = <<"-y", "vue-tsc", "--noEmit">>
                /\ tsconfig /\ ~NamesVue =>
                    best.name = "npx tsc --noEmit" /\ best.args = <<"-y", "tsc", "--noEmit">>

\* only build is declared, tsconfig.json exists, a nuxt-prefixed package is a
\* dependency: the vue-tsc fallback is selected over the build script
C13_Witness ==
    /\ pc = "selected"
    /\ OnlyDeclared("build")
    /\ tsconfig
    /\ manifest.deps = { <<"nuxt", "3">> }
    /\ best.name = "npx vue-tsc --noEmit"

\* C15: detectPm is total: for every combination of lockfiles at the repository
\* root it returns pnpm if pnpm-lock.yaml exists, otherwise yarn if yarn.lock
\* exists, otherwise bun if bun.lockb or bun.lock exists, otherwise npm.
C15_DetectPmTotal ==
    LET pm == detectPm(lockfiles)
    IN  /\ pm \in {"pnpm", "yarn", "bun", "npm"}
        /\ pm = "pnpm" <=> "pnpm-lock.yaml" \in lockfiles
        /\ pm = "yarn" <=> "yarn.lock" \in lockfiles /\ "pnpm-lock.yaml" \notin lockfiles
        /\ pm = "bun" <=>
            /\ "bun.lockb" \in lockfiles \/ "bun.lock" \in lockfiles
            /\ lockfiles \cap {"pnpm-lock.yaml", "yarn.lock"} = {}
        /\ pm = "npm" <=>
            lockfiles \cap {"pnpm-lock.yaml", "yarn.lock", "bun.lockb", "bun.lock"} = {}
        /\ pc = "selected" /\ best.program \notin {"", "npx"} => best.program = pm

\* every lockfile is present and the selected script command runs under pnpm
C15_Witness ==
    /\ pc = "selected"
    /\ lockfiles = LockfileNames
    /\ best.program = "pnpm"

HasScript(name) ==
    /\ manifest.kind = "object"
    /\ \E i \in 1..Len(manifest.scripts) : manifest.scripts[i][1] = name

ScriptNamesOf(kind) ==
    IF kind = "tests" THEN TestScriptNames
    ELSE IF kind = "typecheck" THEN {"typecheck"}
    ELSE IF kind = "lint" THEN {"lint"}
    ELSE {"build"}

\* C16: for every parsable manifest and each of the four kinds the catalog
\* holds exactly one command of the kind if a script with a matching name
\* exists among the manifest's scripts, whatever its value (the empty string
\* included), and no command of the kind otherwise.
C16_CatalogFromScriptNames ==
    manifest.kind = "object" =>
        \A k \in CheckKinds :
            Cardinality(OfKind(Catalog, k)) =
                (IF \E n \in ScriptNamesOf(k) : HasScript(n) THEN 1 ELSE 0)

FirstDeclaredSynonym ==
    IF Declared("test:run") THEN "test:run"
    ELSE IF Declared("test:ci") THEN "test:ci"
    ELSE "test:unit"

\* C17: every catalog command has the detected package manager as its program;
\* the tests command has arguments [test] exactly when the canonical test
\* script is declared, whatever synonyms are declared with it, and otherwise
\* [run, s] for the first declared synonym s in the order test:run, test:ci,
\* test:unit; typecheck, lint and build commands have arguments [run, <name>].
C17_CommandForms ==
    \A i \in 1..Len(Catalog) :
        LET c == Catalog[i]
        IN  /\ c.program = detectPm(lockfiles)
            /\ c.kind = "tests" =>
                /\ c.args = <<"test">> <=> Declared("test")
                /\ ~Declared("test") => c.args = <<"run", FirstDeclaredSynonym>>
            /\ c.kind \in {"typecheck", "lint", "build"} => c.args = <<"run", c.kind>>
            /\ pc = "selected" /\ best.kind = c.kind /\ best.program # "npx" => best = c

\* the synonym test:run is declared before the canonical test script, and the
\* selected command is the shorthand `bun test`
C17_Witness ==
    /\ pc = "selected"
    /\ manifest.scripts = << <<"test:run", "cmd">>, <<"test", "cmd">> >>
    /\ lockfiles = {"bun.lock"}
    /\ best.args = <<"test">>
    /\ best.program = "bun"

\* the package manager an install command is carried out with
ManagerOf(e) == IF e.program = "npx" THEN e.args[2] ELSE e.program

\* C14: a fresh install in the isolated copy is carried out with the package
\* manager detectPm returns for the repository root -- pnpm, yarn, bun or npm --
\* in that manager's frozen form whenever a lockfile is present.
C14_InstallUsesDetectedPm ==
    \A i \in Steps("install") :
        LET e == log[i]
            pm == detectPm(lockfiles)
        IN  /\ ManagerOf(e) = pm
            /\ pm \in {"pnpm", "yarn", "bun"} => e.args[Len(e.args)] = "--frozen-lockfile"
            /\ pm = "npm" /\ "package-lock.json" \in lockfiles => e.args = <<"ci">>

\* C19: no step of a verification call -- the link, the install, the check
\* running in a copy whose node_modules is a link to the original's, the
\* worktree removal, the deletion of the temporary directory -- modifies or
\* deletes the original repository's dependency directory.
C19_RootNodeModulesUntouched == [][rootNodeModules' = rootNodeModules]_vars

Active(p) ==
    calls[p].pc \in {"worktree_add", "diff", "apply", "in_use", "inline_remove",
                     "inline_rm", "cleanup_remove", "cleanup_rm"}

InUse(p) == calls[p].pc \in {"diff", "apply", "in_use"}

\* C18: two calls running concurrently on one repository use distinct
\* temporary directories and distinct isolated-copy paths, and the cleanup of
\* one never deregisters or deletes the copy or the directory of the other
\* while that one is still in use.
C18_ConcurrentCallsDoNotCollide ==
    /\ \A p, q \in Procs :
        p # q /\ Active(p) /\ Active(q) =>
            /\ calls[p].base # calls[q].base
            /\ wtDirOf(calls[p].base) # wtDirOf(calls[q].base)
    /\ \A p \in Procs :
        InUse(p) =>
            /\ calls[p].base \in osTmp
            /\ wtDirOf(calls[p].base) \in osTmp
            /\ wtDirOf(calls[p].base) \in registry

\* one call has cleaned up and returned while the other is still running its
\* check in its own copy
C18_Witness ==
    /\ calls["p1"].pc = "returned"
    /\ calls["p2"].pc = "in_use"
    /\ calls["p1"].base \notin osTmp
    /\ wtDirOf(calls["p2"].base) \in registry

Happened(kinds) == \E i \in 1..Len(events) : events[i].kind \in kinds

Blank(text) == \A i \in 1..Len(text) : text[i] \in {" ", "\n"}

\* C20: in auto, scan and suggest, a staged diff that is empty or white space
\* only makes the process exit with status 1 before any quality check is run,
\* any language-model request is made or any commit is attempted.
C20_NoStagedChangesExitsFirst ==
    Blank(staged) =>
        /\ ~Happened({"check", "llm", "commit"})
        /\ cliPc \in {"idle", "start", "validate", "exited"}
        /\ cliPc = "exited" => exitCode = 1

\* auto with scanning enabled, the staged diff is white space only and was
\* read successfully, and the process has exited with status 1
C20_Witness ==
    /\ command = "auto"
    /\ scanEnabled
    /\ staged = <<" ", "\n">>
    /\ diff = staged
    /\ cliPc = "exited"
    /\ exitCode = 1

\* createStagedWorktree returned: the patch was written and, unless blank,
\* applied
Isolated ==
    /\ Steps("write") # {} /\ ~Failed("write")
    /\ pc \notin {"apply", "inline_remove", "inline_rm", "throw"}
    /\ ~Failed("apply")

Subprocesses == Steps("install") \cup Steps("check")

OnceAfter(op, earlier) ==
    /\ Cardinality(Steps(op)) = 1
    /\ \A i \in Steps(op) : \A j \in earlier : j < i

\* C21: in every call in which createStagedWorktree returned, the cleanup
\* action runs exactly once, after the last install or check subprocess and
\* before the call returns, on the install-failure path and on the
\* check-executed path; after a failed apply the inline cleanup runs once and
\* the returned cleanup action is never invoked.
C21_CleanupExactlyOnce ==
    /\ Cardinality(Steps("cleanup.remove")) <= 1
    /\ Cardinality(Steps("cleanup.rm")) <= 1
    /\ Cardinality(Steps("remove")) <= 1
    /\ Cardinality(Steps("rm")) <= 1
    /\ Steps("cleanup.remove") # {} => Isolated
    /\ Isolated /\ pc = "done" =>
        /\ OnceAfter("cleanup.remove", Subprocesses)
        /\ OnceAfter("cleanup.rm", Subprocesses \cup Steps("cleanup.remove"))
        /\ Failed("install") \/ Attempted("check")
    /\ Failed("apply") /\ pc = "done" =>
        /\ OnceAfter("remove", Steps("apply"))
        /\ OnceAfter("rm", Steps("remove"))
        /\ Steps("cleanup.remove") = {} /\ Steps("cleanup.rm") = {}
        /\ Subprocesses = {}

\* the install failed, the cleanup action has run and the call has returned
C21_Witness ==
    /\ pc = "done"
    /\ outcome = "returned"
    /\ Failed("install")
    /\ Steps("cleanup.remove") # {}
    /\ Steps("cleanup.rm") # {}

Succeeded(op) == \E i \in Steps(op) : log[i].ok

Before(earlier, later) ==
    \A i \in Steps(earlier) : \A j \in Steps(later) : i < j

\* C22: the steps of a call occur in the order select, isolate, provision,
\* execute; the selected command is executed at most once, and only after a
\* command was selected, the worktree was registered, the staged patch (if not
\* blank) was applied successfully and provisioning ended without an install
\* failure.
C22_SelectIsolateProvisionExecute ==
    /\ Cardinality(Steps("check")) <= 1
    /\ log # <<>> => pc # "start" /\ best # NoCheck
    /\ Before("mkdtemp", "worktree_add") /\ Before("worktree_add", "diff")
    /\ Before("diff", "write") /\ Before("write", "apply")
    /\ Before("apply", "link") /\ Before("write", "link")
    /\ Before("link", "install") /\ Before("write", "install")
    /\ Before("install", "check") /\ Before("link", "check")
    /\ Attempted("link") \/ Attempted("install") \/ Attempted("check") =>
        /\ Succeeded("worktree_add")
        /\ Succeeded("write")
        /\ IF PatchBlank(patch) THEN ~Attempted("apply") ELSE Succeeded("apply")
    /\ Attempted("check") =>
        /\ ~Failed("install")
        /\ \A i \in Steps("check") :
            log[i].program = best.program /\ log[i].args = best.args
        /\ pc \notin {"link", "install", "check"}

\* a non-blank patch was applied, the link failed, the install succeeded and
\* the check was executed
C22_Witness ==
    /\ Succeeded("apply")
    /\ Failed("link")
    /\ Succeeded("install")
    /\ Attempted("check")

\* C23: a link of the copy's node_modules to the root's is attempted exactly
\* when the root has node_modules and the copy has none; an install is run
\* exactly when the copy still has none after that step: a successful link
\* means no install, and a failed link does not raise but falls through to the
\* install.
C23_LinkThenInstall ==
    /\ [](/\ Succeeded("link") => ~Attempted("install")
          /\ Failed("link") => outcome # "raised"
          /\ Failed("link") /\ pc \notin {"link", "install"} => Attempted("install"))
    /\ [][/\ pc = "link" =>
              /\ log' # log <=> (rootNodeModules # "absent" /\ tmp.nm = "none")
              /\ pc' = "install"
              /\ outcome' = "none"
          /\ pc = "install" =>
              /\ log' # log <=> tmp.nm = "none"
              /\ log' # log => log'[Len(log')].op = "install"
              /\ log' = log => pc' = "check"]_vars

\* the link failed, the install ran and the call returned a result
C23_Witness ==
    /\ Failed("link")
    /\ Attempted("install")
    /\ outcome = "returned"

\* C24: every result with ran:true echoes the command pickBestCheck chose, in
\* kind and in name, when the check was executed and when the install failed
\* before it; a manifest whose only script is test and a check exiting with
\* status 1 give ran:true, ok:false, kind tests, name `<pm> test`.
C24_ResultEchoesCommand ==
    outcome = "returned" /\ result.ran =>
        /\ best = pickBestCheck(manifest, tsconfig, lockfiles)
        /\ result.kind = best.kind
        /\ result.name = best.name
        /\ Attempted("check") \/ Failed("install")
        /\ /\ manifest.kind = "object"
           /\ manifest.scripts = << <<"test", "cmd">> >>
           /\ \E i \in Steps("check") : log[i].proc.exited /\ log[i].proc.status = 1
           => /\ ~result.ok
              /\ result.kind = "tests"
              /\ result.name = detectPm(lockfiles) \o " test"

\* the only script is test, yarn.lock is present, the check exited with status
\* 1 and the result names `yarn test`
C24_Witness ==
    /\ outcome = "returned"
    /\ manifest.kind = "object"
    /\ manifest.scripts = << <<"test", "cmd">> >>
    /\ lockfiles = {"yarn.lock"}
    /\ \E i \in Steps("check") : log[i].proc.exited /\ log[i].proc.status = 1
    /\ result = [ran |-> TRUE, ok |-> FALSE, kind |-> "tests", name |-> "yarn test",
                 output |-> result.output]

\* positions in events of the quality check's verdict, of the request of the
\* AI scan, and of a prompt answered with n or no
Verdicts(v) == { i \in 1..Len(events) : events[i].kind = "check" /\ events[i].what = v }

Scans ==
    { i \in 1..Len(events) :
        /\ events[i].kind = "llm"
        /\ events[i].what \notin {"summarizeCheckOutput", "generateCommitMessage"} }

Refusals == { i \in 1..Len(events) : events[i].kind = "ask" /\ events[i].what \in {"n", "no"} }

\* C25: in runFrontendChecks followed by handleScanPhase the AI scan uses the
\* checks-passed prompt only if a check ran and passed; when no check ran, or
\* a check failed and the user chose to proceed, it uses the no-checks prompt;
\* when a check failed and the user answered n or no the process exits with
\* status 0 and no AI scan is performed.
C25_ScanPromptFollowsChecks ==
    /\ \A i \in Scans :
        /\ events[i].what = SYSTEM_PROMPT_CHECKS_PASSED => Verdicts("passed") # {}
        /\ Verdicts("not run") # {} => events[i].what = SYSTEM_PROMPT_NO_CHECKS
        /\ Verdicts("failed") # {} => events[i].what = SYSTEM_PROMPT_NO_CHECKS
        /\ \E j \in 1..(i - 1) : events[j].kind = "check" /\ events[j].what # "raised"
    /\ Verdicts("passed") # {} =>
        \A i \in Scans : events[i].what = SYSTEM_PROMPT_CHECKS_PASSED
    /\ \A j \in Verdicts("failed") :
        j + 2 \in Refusals => Scans = {} /\ cliPc = "exited" /\ exitCode = 0
    /\ cliPc \in {"generate", "approve", "commit"} /\ Verdicts("failed") # {} => Scans # {}
    /\ cliPc \in {"generate", "approve", "commit"} /\ Verdicts("not run") # {} => Scans # {}

\* the check failed, the user answered yes, and the scan was requested with
\* the no-checks prompt
C25_Witness ==
    /\ Verdicts("failed") # {}
    /\ \E i \in Scans :
        /\ events[i].what = SYSTEM_PROMPT_NO_CHECKS
        /\ events[i - 1] = Event("ask", "yes")

Commits == { i \in 1..Len(events) : events[i].kind = "commit" }

\* C26: in the auto flow a commit is made at most once per run, only after the
\* user answered y or yes to the approval prompt, and with the message most
\* recently displayed; no commit is made when the user answers n or no at any
\* prompt, when the edited message is empty, or when verification raised an
\* isolation failure, in which case the process exits with status 1.
C26_CommitOnlyOnApproval ==
    /\ Cardinality(Commits) <= 1
    /\ \A i \in Commits :
        /\ command = "auto"
        /\ i >= 3
        /\ events[i - 1].kind = "ask" /\ events[i - 1].what \in {"y", "yes"}
        /\ events[i - 2] = Event("display", events[i].what)
        /\ i = Len(events)
    /\ Refusals # {} => Commits = {} /\ cliPc = "exited" /\ exitCode = 0
    /\ (\E i \in 1..Len(events) : events[i] = Event("edited", "")) =>
        Commits = {} /\ cliPc = "exited" /\ exitCode = 1
    /\ Verdicts("raised") # {} => Commits = {} /\ cliPc = "exited" /\ exitCode = 1

\* the user edited the message, accepted it, and the edited message was
\* committed
C26_Witness ==
    /\ \E i \in 1..Len(events) : events[i] = Event("edited", "fix: edited")
    /\ \E i \in Commits : events[i].what = "fix: edited"
    /\ exitCode = 0

\* C30: in the auto flow the message passed to commitWithMessage is never
\* empty, for every generated initial message (an empty one included) and
\* every sequence of choices among accept, edit, regenerate and unrecognised
\* input.
C30_CommitMessageNeverEmpty ==
    \A i \in Commits : events[i].what # ""

\* C29: when no check is available runBestFrontendCheck creates no temporary
\* directory, registers no worktree, reads no staged diff and launches no
\* subprocess: the filesystem and the worktree registrations are as before the
\* call.
C29_NoCheckNoEffect ==
    /\ [](best = NoCheck =>
            /\ log = <<>>
            /\ tmp = NoTmp
            /\ worktrees = {}
            /\ patch = {}
            /\ pc \in {"start", "done"})
    /\ [][pc = "start" /\ pickBestCheck(manifest, tsconfig, lockfiles) = NoCheck =>
            /\ pc' = "done"
            /\ result' = [ran |-> FALSE, ok |-> TRUE]
            /\ UNCHANGED <<repoVars, rootNodeModules, work, worktrees, tmp, patch, log>>]_vars

\* a root without package.json and without tsconfig.json: the call has
\* returned ran:false and nothing was logged
C29_Witness ==
    /\ pc = "done"
    /\ manifest = NoManifest
    /\ ~tsconfig
    /\ result = [ran |-> FALSE, ok |-> TRUE]
    /\ log = <<>>

\* C27: whenever a declared-script command is selected and executed, the
\* script it names is declared in the manifest of the isolated copy (HEAD plus
\* staged diff) in which it runs, also when the working-tree manifest at the
\* repository root, from which the command was selected, differs from the
\* staged one.
C27_ScriptDeclaredInCopy ==
    processCwd = "repoRoot" /\ Attempted("check") /\ best.program # "npx" =>
        /\ stagedManifest.kind = "object"
        /\ Truthy(ScriptOf(stagedManifest.scripts, best.args[Len(best.args)]))

\* C28: for every repository root passed to runBestFrontendCheck and every
\* working directory of the process, the isolated copy is registered from,
\* and the staged diff is captured from, the repository at the given root, the
\* one whose manifest and lockfiles selected the command.
C28_GitRunsAtRepoRoot ==
    /\ pc \in {"diff", "write", "apply", "link", "install", "check"} =>
        /\ wtDir \in worktrees
        /\ tmp.wt \in {head, index}
    /\ Succeeded("diff") => patch = Diff(head, index)
====
